---- MODULE Spec2Model ----
(***************************************************************************)
(* Model of the AVL dataset convention: the generator new_dataset          *)
(* (avl/dataset.py) and the validator verify_dataset with its rules        *)
(* (avl/verify.py).                                                        *)
(*                                                                         *)
(* Numbers.  Spatial coordinate values are exact rationals carried as      *)
(* integers in units of 1/Scale, so that numpy.linspace is computed        *)
(* without rounding.  Time instants are integer ticks counted from         *)
(* time_start.  Attribute values are records [s, n] (a text and a tuple of *)
(* integers) so that all attribute values have one shape.                  *)
(***************************************************************************)
EXTENDS Integers, Sequences, FiniteSets, TLC

VARIABLES
    origin,     \* where the dataset comes from: "none", "new_dataset", "memory"
    params,     \* the arguments of the new_dataset call
    dataset,    \* the dataset in memory
    op,         \* the last function called
    raised,     \* the exception the last call raised, or NoException
    level,      \* the level argument of verify_dataset
    issues      \* the list of issues the last validator call returned

vars == <<origin, params, dataset, op, raised, level, issues>>

\* ------------------------------------------------------------------ bounds
MaxSize == 2

MaxPeriods == 3

\* the longest coordinate and the largest coordinate value of the datasets
\* that vary the values of one coordinate
MaxLen == 4

MaxVal == 3

\* ------------------------------------------------------------ basic helpers
RECURSIVE Fact(_)
Fact(n) == IF n <= 1 THEN 1 ELSE n * Fact(n - 1)

\* one unit of a spatial coordinate, in model integers
Scale == 2 * Fact(MaxSize)

EmptyMap == [k \in {} |-> 0]

Str(s) == [s |-> s, n |-> <<>>]

Num(x) == [s |-> "", n |-> <<x>>]

\* dict.update(b) applied to a
Update(a, b) ==
    [k \in (DOMAIN a) \cup (DOMAIN b) |-> IF k \in DOMAIN b THEN b[k] ELSE a[k]]

Reverse(s) == [i \in 1..Len(s) |-> s[Len(s) + 1 - i]]

InSeq(e, s) == \E i \in 1..Len(s) : s[i] = e

Zeros(n) == [i \in 1..n |-> 0]

None == "None"

NoException == "none"

WARNING == "WARNING"

ERROR == "ERROR"

\* ------------------------------------------------------------ dataset.py
DEFAULT_METADATA ==
    [Conventions |-> Str("CF-1.7"),
     title |-> Str("AVL test dataset"),
     summary |-> Str("This dataset is used to demonstrate the AVL common dataset convention"),
     keywords |-> Str("ESA, AVL, Agriculture, EO")]

\* numpy.linspace(start, stop, num): num evenly spaced values, the end point
\* included; a single value is start; values in units of 1/Scale
linspace(start, stop, num) ==
    [i \in 1..num |->
        IF num = 1 THEN start
        ELSE start + ((i - 1) * (stop - start)) \div (num - 1)]

\* a variable of a dataset: dimension names, attributes, encoding, and the
\* values in row-major order
Variable(dims, attrs, encoding, data) ==
    [dims |-> dims, attrs |-> attrs, encoding |-> encoding, data |-> data]

\* pyproj: is the CRS a geographic one
is_geographic(crs) == crs = "CRS84"

\* pyproj: CRS.to_cf(), the CF grid-mapping attributes of a CRS
to_cf(crs) ==
    [crs_wkt |-> Str(crs),
     grid_mapping_name |-> Str(IF is_geographic(crs) THEN "latitude_longitude"
                                                     ELSE "transverse_mercator")]

\* pyproj.Transformer.transform to CRS84: kept symbolic, the value names the
\* axis and the projected point it comes from
transform(crs, axis, x, y) == [s |-> axis, n |-> <<x, y>>]

get_geospatial_attrs(bbox, res, crs) ==
    LET geo == is_geographic(crs)
        x1 == bbox[1]
        y1 == bbox[2]
        x2 == bbox[3]
        y2 == bbox[4]
        \* twice the centre position, to stay in integers
        xm1 == x1 + x2
        ym1 == y1 + y2
        lon_min == IF geo THEN Num(x1) ELSE transform(crs, "lon", 2 * x1, 2 * y1)
        lat_min == IF geo THEN Num(y1) ELSE transform(crs, "lat", 2 * x1, 2 * y1)
        lon_max == IF geo THEN Num(x2) ELSE transform(crs, "lon", 2 * x2, 2 * y2)
        lat_max == IF geo THEN Num(y2) ELSE transform(crs, "lat", 2 * x2, 2 * y2)
        lon_res == IF geo THEN Num(res[1])
                   ELSE [s |-> "abs(lon_m2 - lon_m1)",
                         n |-> <<xm1, ym1, xm1 + 2 * res[1], ym1 + 2 * res[2]>>]
        lat_res == IF geo THEN Num(res[2])
                   ELSE [s |-> "abs(lat_m2 - lat_m1)",
                         n |-> <<xm1, ym1, xm1 + 2 * res[1], ym1 + 2 * res[2]>>]
    IN  [geospatial_lon_units |-> Str("degrees_east"),
         geospatial_lon_min |-> lon_min,
         geospatial_lon_max |-> lon_max,
         geospatial_lon_resolution |-> lon_res,
         geospatial_lat_units |-> Str("degrees_north"),
         geospatial_lat_min |-> lat_min,
         geospatial_lat_max |-> lat_max,
         geospatial_lat_resolution |-> lat_res,
         geospatial_bounds_crs |-> Str("CRS84"),
         geospatial_bounds |->
             [s |-> "POLYGON",
              n |-> lon_min.n \o lat_min.n \o lon_min.n \o lat_max.n
                    \o lon_max.n \o lat_max.n \o lon_max.n \o lat_min.n
                    \o lon_min.n \o lat_min.n]]

get_time_coverage_attrs(time_range, time_period) ==
    [time_coverage_start |-> Num(time_range[1]),
     time_coverage_end |-> Num(time_range[2]),
     time_coverage_resolution |-> Str(time_period),
     time_coverage_duration |-> Num(time_range[2] - time_range[1])]

\* pandas.date_range / xarray.cftime_range: the length in seconds of the
\* i-th step of a frequency that starts at time_start = 2010-01-01T00:00:00
\* ("MS" steps from month start to month start)
step_seconds(freq, i) ==
    CASE freq = "1S" -> 1
      [] freq = "1D" -> 86400
      [] freq = "MS" ->
            86400 * <<31, 28, 31, 30, 31, 30, 31, 31, 30, 31, 30, 31>>[((i - 1) % 12) + 1]

\* ticks per second of the time representation: datetime64[s] counts
\* seconds; cftime instants and the float64 axis that astype(None) gives
\* resolve the halves of a second that time_delta // 2 produces
ticks_per_second(use_cftime, time_dtype) ==
    IF ~use_cftime /\ time_dtype = "datetime64[s]" THEN 1 ELSE 2

\* the periods boundary instants of a frequency, in ticks from time_start
RECURSIVE date_range(_, _, _)
date_range(freq, periods, ticks) ==
    IF periods = 0 THEN <<>>
    ELSE IF periods = 1 THEN <<0>>
    ELSE LET head == date_range(freq, periods - 1, ticks)
         IN  Append(head, head[periods - 1] + ticks * step_seconds(freq, periods - 1))

\* the loop over the declared data variables (dataset.py 250-258); st
\* carries the two Python names the loop assigns: data_vars and attrs
RECURSIVE variables_loop(_, _, _, _, _, _)
variables_loop(variables, i, st, crs, dims, shape) ==
    IF i > Len(variables) THEN st
    ELSE LET var_name == variables[i][1]
             attrs0 == variables[i][3]
             attrs == IF crs # None
                      THEN Update(attrs0, [grid_mapping |-> Str("crs")])
                      ELSE attrs0
             var == Variable(dims, attrs, EmptyMap,
                             Zeros(shape[1] * shape[2] * shape[3]))
         IN  variables_loop(variables, i + 1,
                            [names |-> Append(st.names, var_name),
                             var   |-> Update(st.var, [k \in {var_name} |-> var]),
                             attrs |-> attrs],
                            crs, dims, shape)

\* the result of a call: the exception raised, if any, and the value
Raise(exc) == [raised |-> exc, names |-> <<>>, var |-> EmptyMap,
               attrs |-> EmptyMap, chunks |-> EmptyMap]

\* a scalar argument (a 1-tuple here) stands for the pair of it twice
\* (dataset.py 113-120)
Pair(v) == IF Len(v) = 1 THEN <<v[1], v[1]>> ELSE v

new_dataset(p) ==
    IF p.use_cftime /\ p.time_dtype # None THEN Raise("ValueError")
    ELSE
    LET xy_size == Pair(p.xy_size)
        xy_tile_size == Pair(p.xy_tile_size)
        xy_units == Pair(p.xy_units)
        xy_res == Pair(p.xy_res)
        width == xy_size[1]
        height == xy_size[2]
        x_name == p.xy_names[1]
        y_name == p.xy_names[2]
        x_units == xy_units[1]
        y_units == xy_units[2]
        x_start == p.xy_start[1]
        y_start == p.xy_start[2]
        x_res == xy_res[1]
        y_res == xy_res[2]
        crs == p.crs
        x_is_lon == x_name = "lon" \/ x_units = "degrees_east"
        y_is_lat == y_name = "lat" \/ y_units = "degrees_north"
        x_end == x_start + width * x_res
        y_end == y_start + height * y_res
        \* 0.5 * res, in units of 1/Scale
        x_res_05 == (Scale \div 2) * x_res
        y_res_05 == (Scale \div 2) * y_res
        x_data == linspace(Scale * x_start + x_res_05, Scale * x_end - x_res_05, width)
        y_data0 == linspace(Scale * y_start + y_res_05, Scale * y_end - y_res_05, height)
        y_data == IF p.inverse_y THEN Reverse(y_data0) ELSE y_data0
        x_attrs0 == [units |-> Str(x_units),
                     long_name |-> Str(IF x_is_lon THEN "longitude"
                                       ELSE "x coordinate of projection"),
                     standard_name |-> Str(IF x_is_lon THEN "longitude"
                                           ELSE "projection_x_coordinate")]
        y_attrs0 == [units |-> Str(y_units),
                     long_name |-> Str(IF y_is_lat THEN "latitude"
                                       ELSE "y coordinate of projection"),
                     standard_name |-> Str(IF y_is_lat THEN "latitude"
                                           ELSE "projection_y_coordinate")]
        ticks == ticks_per_second(p.use_cftime, p.time_dtype)
        time_data_p1 == date_range(p.time_res, p.time_periods + 1, ticks)
    IN
    \* time_data_p1[1] of a one-element array
    IF Len(time_data_p1) < 2 THEN Raise("IndexError")
    ELSE
    LET time_delta == time_data_p1[2] - time_data_p1[1]
        time_data == [i \in 1..p.time_periods |-> time_data_p1[i] + (time_delta \div 2)]
        time_encoding == [units |-> Str(p.time_units), calendar |-> Str(p.time_calendar)]
        x_bnds_name == x_name \o "_bnds"
        y_bnds_name == y_name \o "_bnds"
        time_bnds_name == p.time_name \o "_bnds"
        bnds_dim == "bnds"
        x_lo == linspace(Scale * x_start, Scale * (x_end - x_res), width)
        x_hi == linspace(Scale * (x_start + x_res), Scale * x_end, width)
        x_bnds_data == [k \in 1..(2 * width) |->
                          IF k % 2 = 1 THEN x_lo[(k + 1) \div 2] ELSE x_hi[k \div 2]]
        y_lo == linspace(Scale * y_start, Scale * (y_end - x_res), height)
        y_hi == linspace(Scale * (y_start + x_res), Scale * y_end, height)
        y_bnds_data0 == [k \in 1..(2 * height) |->
                          IF k % 2 = 1 THEN y_lo[(k + 1) \div 2] ELSE y_hi[k \div 2]]
        \* [::-1, ::-1] of a row-major (height, 2) array is its reversal
        y_bnds_data == IF p.inverse_y THEN Reverse(y_bnds_data0) ELSE y_bnds_data0
        time_bnds_data == [k \in 1..(2 * p.time_periods) |->
                          IF k % 2 = 1 THEN time_data_p1[(k + 1) \div 2]
                          ELSE time_data_p1[(k \div 2) + 1]]
        x_var == Variable(<<x_name>>,
                          IF p.drop_bounds THEN x_attrs0
                          ELSE Update(x_attrs0, [bounds |-> Str(x_bnds_name)]),
                          EmptyMap, x_data)
        y_var == Variable(<<y_name>>,
                          IF p.drop_bounds THEN y_attrs0
                          ELSE Update(y_attrs0, [bounds |-> Str(y_bnds_name)]),
                          EmptyMap, y_data)
        time_var == Variable(<<p.time_name>>,
                             IF p.drop_bounds THEN EmptyMap
                             ELSE [bounds |-> Str(time_bnds_name)],
                             time_encoding, time_data)
        x_bnds_var == Variable(<<x_name, bnds_dim>>, [units |-> Str(x_units)],
                               EmptyMap, x_bnds_data)
        y_bnds_var == Variable(<<y_name, bnds_dim>>, [units |-> Str(y_units)],
                               EmptyMap, y_bnds_data)
        time_bnds_var == Variable(<<p.time_name, bnds_dim>>, EmptyMap,
                                  time_encoding, time_bnds_data)
        coord_names == <<x_name, y_name, p.time_name>>
                       \o (IF p.drop_bounds THEN <<>>
                           ELSE <<x_bnds_name, y_bnds_name, time_bnds_name>>)
        coords0 == (x_name :> x_var) @@ (y_name :> y_var) @@ (p.time_name :> time_var)
        coords == IF p.drop_bounds THEN coords0
                  ELSE Update(coords0, (x_bnds_name :> x_bnds_var)
                                       @@ (y_bnds_name :> y_bnds_var)
                                       @@ (time_bnds_name :> time_bnds_var))
        attrs0 == Update(DEFAULT_METADATA, p.metadata)
        attrs1 == Update(attrs0,
                         get_geospatial_attrs(<<x_start, y_start, x_end, y_end>>,
                                              <<x_res, y_res>>,
                                              IF crs # None THEN crs ELSE "CRS84"))
        attrs2 == Update(attrs1,
                         get_time_coverage_attrs(
                             <<time_data_p1[1], time_data_p1[Len(time_data_p1)]>>,
                             p.time_res))
        loop == variables_loop(p.variables, 1,
                               [names |-> <<>>, var |-> EmptyMap, attrs |-> attrs2],
                               crs, <<p.time_name, y_name, x_name>>,
                               <<p.time_periods, height, width>>)
        data_var_names == IF crs # None THEN Append(loop.names, "crs") ELSE loop.names
        data_vars == IF crs # None
                     THEN Update(loop.var,
                                 [crs |-> Variable(<<>>, to_cf(crs), EmptyMap, <<0>>)])
                     ELSE loop.var
        chunks0 == (x_name :> Str("auto")) @@ (y_name :> Str("auto"))
                   @@ ("time" :> Str("auto"))
        \* xy_tile_size: the empty tuple stands for None
        chunks == IF Len(xy_tile_size) = 2
                  THEN Update(chunks0, (x_name :> Num(xy_tile_size[1]))
                                       @@ (y_name :> Num(xy_tile_size[2])))
                  ELSE chunks0
    IN  [raised |-> NoException,
         names |-> data_var_names \o coord_names,
         var |-> Update(data_vars, coords),
         attrs |-> loop.attrs,
         chunks |-> chunks]

\* ------------------------------------------------------------- verify.py
_EXPECTED_GLOBAL_ATTRS ==
    <<"Conventions", "title", "summary", "sources", "history", "keywords", "id",
      "time_coverage_start", "time_coverage_end", "time_coverage_resolution",
      "geospatial_lon_min", "geospatial_lon_max", "geospatial_lon_resolution",
      "geospatial_lon_units", "geospatial_lat_min", "geospatial_lat_max",
      "geospatial_lat_resolution", "geospatial_lat_units">>

_EXPECTED_VARIABLE_ATTRS ==
    <<<<"long_name", None>>, <<"standard_name", "quantity">>, <<"units", "quantity">>>>

\* an issue message: its text and the names and dimension tuples it quotes
Msg(text, var, attr, must, dims) ==
    [text |-> text, var |-> var, attr |-> attr, must |-> must, dims |-> dims]

_warning(msg) == << <<WARNING, msg>> >>

_severe(msg) == << <<ERROR, msg>> >>

\* the outcome of a call that returns a list of issues or raises
Ok(iss) == [raised |-> NoException, issues |-> iss]

Throw(exc) == [raised |-> exc, issues |-> <<>>]

\* issues += r2, evaluated after r1: an exception ends the function
Then(r1, r2) ==
    IF r1.raised # NoException THEN r1
    ELSE IF r2.raised # NoException THEN r2
    ELSE Ok(r1.issues \o r2.issues)

\* var_name in ds
Has(ds, var_name) == var_name \in DOMAIN ds.var

_is_quantity_var(ds, var_name) ==
    IF var_name = "crs" THEN FALSE
    ELSE Len(ds.var[var_name].dims) > 0
         /\ "flag_names" \notin DOMAIN ds.var[var_name].attrs

_check_variable_attr(ds, var_name, attr_name) ==
    IF attr_name \notin DOMAIN ds.var[var_name].attrs
    THEN _warning(Msg("missing attribute in variable", var_name, attr_name, <<>>, <<>>))
    ELSE <<>>

_check_global_attr(ds, attr_name) ==
    IF attr_name \notin DOMAIN ds.attrs
    THEN _warning(Msg("missing global attribute", "", attr_name, <<>>, <<>>))
    ELSE <<>>

RECURSIVE _check_variable_loop(_, _, _)
_check_variable_loop(ds, var_name, i) ==
    IF i > Len(_EXPECTED_VARIABLE_ATTRS) THEN <<>>
    ELSE LET attr_name == _EXPECTED_VARIABLE_ATTRS[i][1]
             var_type == _EXPECTED_VARIABLE_ATTRS[i][2]
         IN  (IF var_type = "quantity" /\ _is_quantity_var(ds, var_name)
              THEN _check_variable_attr(ds, var_name, attr_name)
              ELSE <<>>)
             \o _check_variable_loop(ds, var_name, i + 1)

_check_variable(ds, var_name) ==
    IF ~Has(ds, var_name)
    THEN Ok(_severe(Msg("missing variable", var_name, "", <<>>, <<>>)))
    ELSE Ok(_check_variable_loop(ds, var_name, 1))

RECURSIVE check_global_attrs_loop(_, _)
check_global_attrs_loop(ds, i) ==
    IF i > Len(_EXPECTED_GLOBAL_ATTRS) THEN <<>>
    ELSE _check_global_attr(ds, _EXPECTED_GLOBAL_ATTRS[i])
         \o check_global_attrs_loop(ds, i + 1)

check_global_attrs(ds) == Ok(check_global_attrs_loop(ds, 1))

\* ds[var_name] raises KeyError for a name the dataset does not have
_check_1d_coord(ds, var_name) ==
    IF ~Has(ds, var_name) THEN Throw("KeyError")
    ELSE IF ds.var[var_name].dims # <<var_name>>
    THEN Ok(_severe(Msg("variable must have a single dimension",
                        var_name, "", <<var_name>>, <<>>)))
    ELSE Ok(<<>>)

\* var.diff(dim=var_name) of a 1-D variable: the differences of neighbours
Diff(data) == [i \in 1..(Len(data) - 1) |-> data[i + 1] - data[i]]

\* var.diff(dim=var_name) raises when the variable has no such dimension
DiffRaises(ds, var_name) == ~InSeq(var_name, ds.var[var_name].dims)

\* a variant that accepts equal neighbours
AllPositive_weak(d) == \A i \in 1..Len(d) : d[i] >= 0

AllPositive(d) == \A i \in 1..Len(d) : d[i] > 0

AllNegative(d) == \A i \in 1..Len(d) : d[i] < 0

_check_mono_inc(ds, var_name) ==
    Then(_check_1d_coord(ds, var_name),
         IF ~Has(ds, var_name) THEN Throw("KeyError")
         ELSE IF DiffRaises(ds, var_name) THEN Throw("ValueError")
         ELSE IF ~AllPositive(Diff(ds.var[var_name].data))
         THEN Ok(_severe(Msg("values of variable must be strictly monotonically increasing",
                             var_name, "", <<>>, <<>>)))
         ELSE Ok(<<>>))

_check_mono_inc_or_dec(ds, var_name) ==
    Then(_check_1d_coord(ds, var_name),
         IF ~Has(ds, var_name) THEN Throw("KeyError")
         ELSE IF DiffRaises(ds, var_name) THEN Throw("ValueError")
         ELSE IF ~(AllPositive(Diff(ds.var[var_name].data))
                   \/ AllNegative(Diff(ds.var[var_name].data)))
         THEN Ok(_severe(Msg("values of variable must be strictly monotonically increasing or decreasing",
                             var_name, "", <<>>, <<>>)))
         ELSE Ok(<<>>))

\* pyproj.CRS.from_cf raises a ProjError for attributes that name no CRS
from_cf_raises(attrs) ==
    "crs_wkt" \notin DOMAIN attrs /\ "grid_mapping_name" \notin DOMAIN attrs

_check_crs(ds, var_name) ==
    Then(_check_variable(ds, var_name),
         IF Has(ds, var_name) /\ from_cf_raises(ds.var[var_name].attrs)
         THEN Ok(_severe(Msg("invalid variable", var_name, "", <<>>, <<>>)))
         ELSE Ok(<<>>))

\* the loop over ds.variables of check_time_coord (verify.py 121-127)
RECURSIVE time_first_loop(_, _, _)
time_first_loop(ds, time_dim, i) ==
    IF i > Len(ds.names) THEN <<>>
    ELSE LET var_name == ds.names[i]
             dims == ds.var[var_name].dims
         IN  (IF InSeq(time_dim, dims) /\ Len(dims) > 1 /\ dims[1] # time_dim
              THEN _severe(Msg("first dimension of variable must be, but dimensions are",
                               var_name, "", <<time_dim>>, dims))
              ELSE <<>>)
             \o time_first_loop(ds, time_dim, i + 1)

check_time_coord(ds) ==
    Then(Then(_check_variable(ds, "time"), _check_mono_inc(ds, "time")),
         IF Has(ds, "time") /\ ds.var["time"].dims = <<"time">>
         THEN Ok(time_first_loop(ds, "time", 1))
         ELSE Ok(<<>>))

\* check_xy_coords, planar part (verify.py 137-149): the issues, and the
\* spatial dimension pair it resolves (the empty tuple stands for None)
xy_planar(ds) ==
    IF Has(ds, "x") /\ Has(ds, "y")
    THEN IF Len(ds.var["x"].dims) = 1 /\ Len(ds.var["y"].dims) = 1
         THEN [yx_dims |-> <<"y", "x">>,
               res |-> Then(Then(Then(Then(_check_variable(ds, "x"),
                                           _check_variable(ds, "y")),
                                      _check_mono_inc(ds, "x")),
                                 _check_mono_inc_or_dec(ds, "y")),
                            _check_crs(ds, "crs"))]
         ELSE [yx_dims |-> <<>>,
               res |-> Then(Then(_check_variable(ds, "x"), _check_variable(ds, "y")),
                            Ok(_severe(Msg("coordinate variables 'x' and 'y' must both be 1-D",
                                           "", "", <<>>, <<>>))))]
    ELSE [yx_dims |-> <<>>, res |-> Ok(<<>>)]

\* check_xy_coords, geographic part (verify.py 151-168); yx_dims is the pair
\* resolved so far
xy_geographic(ds, yx_dims) ==
    IF Has(ds, "lon") /\ Has(ds, "lat")
    THEN LET lon == ds.var["lon"]
             lat == ds.var["lat"]
             head == Then(_check_variable(ds, "lon"), _check_variable(ds, "lat"))
         IN  IF Len(lon.dims) = 1 /\ Len(lat.dims) = 1
             THEN [yx_dims |-> <<"lat", "lon">>,
                   res |-> Then(Then(head, _check_mono_inc(ds, "lon")),
                                _check_mono_inc_or_dec(ds, "lat"))]
             ELSE IF Len(lon.dims) = 2 /\ Len(lat.dims) = 2
             THEN [yx_dims |-> <<"y", "x">>,
                   res |-> Then(head,
                       Ok((IF lon.dims # <<"y", "x">>
                           THEN _severe(Msg("dimensions must be", "lat", "",
                                            <<"y", "x">>, <<>>))
                           ELSE <<>>)
                          \o
                          (IF lat.dims = <<"y", "x">>
                           THEN _severe(Msg("dimensions must be", "lat", "",
                                            <<"y", "x">>, <<>>))
                           ELSE <<>>)))]
             ELSE [yx_dims |-> yx_dims,
                   res |-> Then(head,
                       Ok(_severe(Msg("coordinate variables 'lon' and 'lat' must both be either 1-D or 2-D",
                                      "", "", <<>>, <<>>))))]
    ELSE [yx_dims |-> yx_dims, res |-> Ok(<<>>)]

\* var.dims[-2:]
LastTwo(dims) ==
    IF Len(dims) <= 2 THEN dims ELSE <<dims[Len(dims) - 1], dims[Len(dims)]>>

\* the loop over ds.variables of check_xy_coords (verify.py 174-180)
RECURSIVE trailing_loop(_, _, _)
trailing_loop(ds, yx_dims, i) ==
    IF i > Len(ds.names) THEN <<>>
    ELSE LET var_name == ds.names[i]
             dims == ds.var[var_name].dims
         IN  (IF InSeq(yx_dims[1], dims) /\ InSeq(yx_dims[2], dims)
                 /\ LastTwo(dims) # yx_dims
              THEN _severe(Msg("last two dimensions of variable must be, but dimensions are",
                               var_name, "", yx_dims, dims))
              ELSE <<>>)
             \o trailing_loop(ds, yx_dims, i + 1)

\* check_xy_coords, last part (verify.py 170-180)
xy_trailing(ds, yx_dims) ==
    IF yx_dims = <<>>
    THEN Ok(_severe(Msg("no valid spatial coordinates found", "", "", <<>>, <<>>)))
    ELSE Ok(trailing_loop(ds, yx_dims, 1))

check_xy_coords(ds) ==
    LET planar == xy_planar(ds)
        geographic == xy_geographic(ds, planar.yx_dims)
    IN  Then(Then(planar.res, geographic.res), xy_trailing(ds, geographic.yx_dims))

get_rules == <<"check_global_attrs", "check_time_coord", "check_xy_coords">>

\* rule(dataset)
apply_rule(rule, ds) ==
    CASE rule = "check_global_attrs" -> check_global_attrs(ds)
      [] rule = "check_time_coord" -> check_time_coord(ds)
      [] rule = "check_xy_coords" -> check_xy_coords(ds)

\* a variant of the filter that lets every issue through
OnlyErrors_all(iss) == iss

\* [issue for issue in issues if issue[0] == ERROR]
OnlyErrors(iss) == SelectSeq(iss, LAMBDA issue : issue[1] = ERROR)

\* a variant of the loop that puts the issues of a later rule first
RECURSIVE verify_loop_prepend(_, _, _, _)
verify_loop_prepend(ds, lv, i, all_issues) ==
    IF i > Len(get_rules) THEN Ok(all_issues)
    ELSE LET r == apply_rule(get_rules[i], ds)
         IN  IF r.raised # NoException THEN Throw(r.raised)
             ELSE verify_loop_prepend(ds, lv, i + 1,
                                      (IF lv # ERROR THEN r.issues
                                       ELSE OnlyErrors(r.issues)) \o all_issues)

\* the loop over the rules of verify_dataset (verify.py 89-96)
RECURSIVE verify_loop(_, _, _, _)
verify_loop(ds, lv, i, all_issues) ==
    IF i > Len(get_rules) THEN Ok(all_issues)
    ELSE LET r == apply_rule(get_rules[i], ds)
         IN  IF r.raised # NoException THEN Throw(r.raised)
             ELSE verify_loop(ds, lv, i + 1,
                              all_issues \o (IF lv # ERROR THEN r.issues
                                             ELSE OnlyErrors(r.issues)))

\* verify_dataset of an in-memory dataset
verify_dataset(ds, lv) == verify_loop(ds, lv, 1, <<>>)

\* ------------------------------------------------------------------ inputs
\* the variables list of main.py / cli.py
VAR_A == <<"var_a", "float32",
           [long_name |-> Str("Variable A"), units |-> Str("mg/kg"),
            color_bar_name |-> Str("bone"), color_value_min |-> Str("0.0"),
            color_value_max |-> Str("0.75")]>>

VAR_B == <<"var_b", "uint16",
           [long_name |-> Str("Variable B"),
            flag_meanings |-> Str("quality_good sensor_nonfunctional outside_valid_range"),
            flag_values |-> Str("1, 2, 3"), color_bar_name |-> Str("tab10"),
            color_value_min |-> Str("0"), color_value_max |-> Str("10")]>>

VariablesValues == {<<>>, <<VAR_A>>, <<VAR_A, VAR_B>>}

MetadataValues ==
    {EmptyMap,
     [title |-> Str("My title"), id |-> Str("avl-1")],
     [sources |-> Str("S2"), history |-> Str("created"), id |-> Str("avl-2")],
     [title |-> Str("My title"), geospatial_lon_min |-> Num(99),
      time_coverage_start |-> Str("2000-01-01")]}

ResValues == {-1, 0, 1, 2}

NamesValues == {<<"lon", "lat">>, <<"x", "y">>}

UnitsOf(names) ==
    IF names = <<"lon", "lat">> THEN <<"degrees_east", "degrees_north">>
    ELSE <<"meters">>

\* the defaults of new_dataset (dataset.py 42-62), the grid cut down to the
\* model's size
BaseParams ==
    [xy_size |-> <<MaxSize, MaxSize>>, xy_tile_size |-> <<>>,
     xy_names |-> <<"lon", "lat">>,
     xy_units |-> <<"degrees_east", "degrees_north">>,
     xy_res |-> <<1>>, xy_start |-> <<-1, -1>>, inverse_y |-> FALSE,
     time_name |-> "time", time_dtype |-> "datetime64[s]",
     time_units |-> "seconds since 1970-01-01T00:00:00",
     time_calendar |-> "proleptic_gregorian",
     time_periods |-> 2, time_res |-> "1D", use_cftime |-> FALSE,
     drop_bounds |-> FALSE, variables |-> <<>>, crs |-> None,
     metadata |-> EmptyMap]

\* calls that vary the grid
GridParams ==
    {[BaseParams EXCEPT !.xy_size = <<w, h>>, !.xy_res = <<xr, yr>>,
                        !.xy_start = st, !.inverse_y = inv,
                        !.drop_bounds = db, !.xy_names = nm,
                        !.xy_units = UnitsOf(nm)] :
        w \in 0..MaxSize, h \in 0..MaxSize, xr \in ResValues, yr \in ResValues,
        st \in {<<-1, -1>>, <<0, 3>>}, inv \in BOOLEAN, db \in BOOLEAN,
        nm \in NamesValues}

\* calls that vary the time axis
TimeParams ==
    {[BaseParams EXCEPT !.use_cftime = cf, !.time_dtype = dt,
                        !.time_periods = n, !.time_res = fr,
                        !.drop_bounds = db] :
        cf \in BOOLEAN, dt \in {None, "datetime64[s]"}, n \in 0..MaxPeriods,
        fr \in {"1S", "1D", "MS"}, db \in BOOLEAN}

\* calls that vary the data variables, the CRS and the metadata
MetaParams ==
    {[BaseParams EXCEPT !.variables = vs, !.crs = c, !.metadata = md,
                        !.xy_names = nm, !.xy_units = UnitsOf(nm),
                        !.xy_tile_size = ts, !.drop_bounds = db] :
        vs \in VariablesValues, c \in {None, "CRS84", "EPSG:32633"},
        md \in MetadataValues, nm \in NamesValues,
        ts \in {<<>>, <<1>>, <<2, 1>>}, db \in BOOLEAN}

Params == GridParams \cup TimeParams \cup MetaParams

\* in-memory datasets handed to the validator: each variable is absent or
\* has one of a few shapes
Absent == [present |-> FALSE, v |-> Variable(<<>>, EmptyMap, EmptyMap, <<>>)]

Present(dims, attrs, data) ==
    [present |-> TRUE, v |-> Variable(dims, attrs, EmptyMap, data)]

QuantityAttrs ==
    [long_name |-> Str("l"), standard_name |-> Str("s"), units |-> Str("u")]

TimeShapes ==
    {Absent,
     Present(<<"time">>, QuantityAttrs, <<0, 1, 2>>),
     Present(<<"time">>, EmptyMap, <<0, 2, 1, 3>>),
     Present(<<"t">>, QuantityAttrs, <<0, 1>>)}

XShapes ==
    {Absent,
     Present(<<"x">>, QuantityAttrs, <<0, 1, 2>>),
     Present(<<"y", "x">>, QuantityAttrs, Zeros(4))}

YShapes ==
    {Absent,
     Present(<<"y">>, QuantityAttrs, <<2, 1, 0>>),
     Present(<<"y", "x">>, QuantityAttrs, Zeros(4))}

LonLatShapes(name) ==
    {Absent,
     Present(<<name>>, QuantityAttrs, <<0, 1, 2>>),
     Present(<<"y", "x">>, QuantityAttrs, Zeros(4)),
     Present(<<"x", "y">>, QuantityAttrs, Zeros(4))}

CrsShapes ==
    {Absent,
     Present(<<>>, to_cf("EPSG:32633"), <<0>>),
     Present(<<>>, EmptyMap, <<0>>)}

DataShapes ==
    {Absent,
     Present(<<"time", "y", "x">>, [long_name |-> Str("l"), units |-> Str("u")], Zeros(8)),
     Present(<<"x", "y", "time">>, [long_name |-> Str("l"), units |-> Str("u")], Zeros(8)),
     Present(<<"time", "lat", "lon">>, [long_name |-> Str("l"), units |-> Str("u")], Zeros(8))}

GlobalAttrsValues ==
    {EmptyMap,
     [k \in {_EXPECTED_GLOBAL_ATTRS[i] : i \in 1..Len(_EXPECTED_GLOBAL_ATTRS)} |-> Str("v")]}

\* xr.Dataset(data_vars=..., attrs=...) of the variables that are present
MkDataset(attrs, entries) ==
    LET kept == SelectSeq(entries, LAMBDA e : e[2].present)
        idx(nm) == CHOOSE i \in 1..Len(kept) : kept[i][1] = nm
    IN  [names |-> [i \in 1..Len(kept) |-> kept[i][1]],
         var |-> [nm \in {kept[i][1] : i \in 1..Len(kept)} |-> kept[idx(nm)][2].v],
         attrs |-> attrs,
         chunks |-> EmptyMap]

InMemoryDatasets ==
    {MkDataset(ga, <<<<"var_a", d>>, <<"crs", c>>, <<"x", x>>, <<"y", y>>,
                     <<"lon", lon>>, <<"lat", lat>>, <<"time", t>>>>) :
        ga \in GlobalAttrsValues, d \in DataShapes, c \in CrsShapes,
        x \in XShapes, y \in YShapes, lon \in LonLatShapes("lon"),
        lat \in LonLatShapes("lat"), t \in TimeShapes}

\* the values of a coordinate: every tuple of at most MaxLen values
ValueSeqs == UNION {[1..n -> 0..MaxVal] : n \in 0..MaxLen}

\* a 1-D coordinate on its own dimension
Coord(name, v) == Present(<<name>>, QuantityAttrs, v)

\* datasets that vary the values of one coordinate: 'time' alone, or one
\* of x, y, lon, lat with its partner absent or increasing
MonoDatasets ==
    {MkDataset(EmptyMap, <<<<"time", Coord("time", v)>>>>) : v \in ValueSeqs}
    \cup
    {MkDataset(EmptyMap, <<<<"crs", Present(<<>>, to_cf("EPSG:32633"), <<0>>)>>,
                           <<ab[1], Coord(ab[1], v)>>,
                           <<ab[2], IF partner THEN Coord(ab[2], <<0, 1, 2>>)
                                    ELSE Absent>>>>) :
        v \in ValueSeqs,
        ab \in {<<"x", "y">>, <<"y", "x">>, <<"lon", "lat">>, <<"lat", "lon">>},
        partner \in BOOLEAN}

EmptyDataset == MkDataset(EmptyMap, <<>>)

\* ----------------------------------------------------------------- actions
Init ==
    /\ origin = "none"
    /\ params = BaseParams
    /\ dataset = EmptyDataset
    /\ op = "none"
    /\ raised = NoException
    /\ level = ERROR
    /\ issues = <<>>

\* dataset = new_dataset(**p)
NewDataset ==
    /\ origin = "none"
    /\ \E p \in Params :
         LET r == new_dataset(p)
         IN  /\ params' = p
             /\ raised' = r.raised
             /\ dataset' = [names |-> r.names, var |-> r.var,
                            attrs |-> r.attrs, chunks |-> r.chunks]
    /\ origin' = "new_dataset"
    /\ op' = "new_dataset"
    /\ UNCHANGED <<level, issues>>

\* a caller builds a dataset in memory
InMemoryDataset ==
    /\ origin = "none"
    /\ \E d \in InMemoryDatasets \cup MonoDatasets : dataset' = d
    /\ origin' = "memory"
    /\ op' = "dataset"
    /\ UNCHANGED <<params, raised, level, issues>>

\* a dataset is there and no validator call was made on it yet
Ready == origin # "none" /\ op \in {"new_dataset", "dataset"} /\ raised = NoException

\* issues = verify_dataset(dataset, level=lv)
VerifyDataset ==
    /\ Ready
    /\ \E lv \in {WARNING, ERROR} :
         LET r == verify_dataset(dataset, lv)
         IN  /\ level' = lv
             /\ raised' = r.raised
             /\ issues' = r.issues
    /\ op' = "verify_dataset"
    /\ UNCHANGED <<origin, params, dataset>>

\* issues = rule(dataset), for one rule of get_rules()
CheckRule ==
    /\ Ready
    /\ \E i \in 1..Len(get_rules) :
         LET r == apply_rule(get_rules[i], dataset)
         IN  /\ op' = get_rules[i]
             /\ raised' = r.raised
             /\ issues' = r.issues
    /\ UNCHANGED <<origin, params, dataset, level>>

Next == NewDataset \/ InMemoryDataset \/ VerifyDataset \/ CheckRule

Spec == Init /\ [][Next]_vars

\* ------------------------------------------------------------------ claims
Generated == origin = "new_dataset" /\ op = "new_dataset"

\* the x and y values of the arguments of the call
XySize == Pair(params.xy_size)

XyRes == Pair(params.xy_res)

Returned == Generated /\ raised = NoException

HasIssue(lv, text, var) ==
    \E i \in 1..Len(issues) :
        issues[i][1] = lv /\ issues[i][2].text = text /\ issues[i][2].var = var

\* bounds[i][j] of a bounds variable, i from 1, j in {0, 1}
Bnd(name, i, j) == dataset.var[name].data[2 * (i - 1) + j + 1]

\* C1: a dataset of new_dataset with bounds and a fixed-precision time axis,
\* verified at level WARNING, gives no ERROR, and every WARNING is a
\* 'missing global attribute' warning for an attribute the caller omitted.
C1_RoundTrip ==
    (origin = "new_dataset" /\ op = "verify_dataset" /\ level = WARNING
        /\ ~params.drop_bounds /\ ~params.use_cftime)
    => /\ raised = NoException
       /\ \A i \in 1..Len(issues) :
            /\ issues[i][1] = WARNING
            /\ issues[i][2].text = "missing global attribute"
            /\ issues[i][2].attr \notin DOMAIN params.metadata

\* C2: validation findings are never fatal: verify_dataset does not raise,
\* and check_time_coord of a dataset without 'time' returns the ERROR
\* 'missing variable' instead of raising.
C2_NeverFatal ==
    /\ op = "verify_dataset" => raised = NoException
    /\ (op = "check_time_coord" /\ ~Has(dataset, "time"))
        => raised = NoException /\ HasIssue(ERROR, "missing variable", "time")

NoSpatialPair ==
    /\ origin # "none"
    /\ ~(Has(dataset, "x") /\ Has(dataset, "y"))
    /\ ~(Has(dataset, "lon") /\ Has(dataset, "lat"))

NoSpatialIssue ==
    <<ERROR, Msg("no valid spatial coordinates found", "", "", <<>>, <<>>)>>

\* C3: for a dataset with neither the pair (x, y) nor the pair (lon, lat),
\* the validator does not raise, and its result has exactly one issue with
\* the message 'no valid spatial coordinates found', an ERROR.
C3_MissingSpatial ==
    (NoSpatialPair /\ op = "verify_dataset") =>
        /\ raised = NoException
        /\ Cardinality({i \in 1..Len(issues) :
               issues[i][2].text = "no valid spatial coordinates found"}) = 1
        /\ \E i \in 1..Len(issues) : issues[i] = NoSpatialIssue

\* C4: the global attributes are the defaults overridden by the caller's
\* metadata: every key of metadata has the caller's value, every default
\* key the caller did not supply keeps its default value.
C4_CallerWins ==
    Returned =>
        /\ \A k \in DOMAIN params.metadata :
             k \in DOMAIN dataset.attrs /\ dataset.attrs[k] = params.metadata[k]
        /\ \A k \in (DOMAIN DEFAULT_METADATA) \ (DOMAIN params.metadata) :
             k \in DOMAIN dataset.attrs /\ dataset.attrs[k] = DEFAULT_METADATA[k]

\* the claimed values of one axis, in units of 1/Scale
AxisAsClaimed(name, start, res, size) ==
    /\ Len(dataset.var[name].data) = size
    /\ Len(dataset.var[name \o "_bnds"].data) = 2 * size
    /\ \A i \in 0..(size - 1) :
         /\ dataset.var[name].data[i + 1]
              = Scale * start + Scale * res * i + (Scale \div 2) * res
         /\ Bnd(name \o "_bnds", i + 1, 0) = Scale * (start + res * i)
         /\ Bnd(name \o "_bnds", i + 1, 1) = Scale * (start + res * (i + 1))

\* C5: with bounds and inverse_y = False, on both spatial axes
\* center[i] = start + resolution*(i + 0.5) and
\* bounds[i] = (start + resolution*i, start + resolution*(i+1)),
\* each axis with its own start, resolution and size.
C5_AxisValues ==
    (Returned /\ ~params.drop_bounds /\ ~params.inverse_y) =>
        /\ AxisAsClaimed(params.xy_names[1], params.xy_start[1],
                         XyRes[1], XySize[1])
        /\ AxisAsClaimed(params.xy_names[2], params.xy_start[2],
                         XyRes[2], XySize[2])

Contiguous(name, size) ==
    \A i \in 1..(size - 1) : Bnd(name, i, 1) = Bnd(name, i + 1, 0)

\* C6: with bounds and inverse_y = False, on every axis the upper edge of a
\* cell is the lower edge of the next: bounds[i][1] = bounds[i+1][0].
C6_Contiguity ==
    (Returned /\ ~params.drop_bounds /\ ~params.inverse_y) =>
        /\ Contiguous(params.xy_names[1] \o "_bnds", XySize[1])
        /\ Contiguous(params.xy_names[2] \o "_bnds", XySize[2])
        /\ Contiguous(params.time_name \o "_bnds", params.time_periods)

\* C7: new_dataset with an x or y resolution <= 0 fails with an
\* invalid-parameter error and returns no dataset.
C7_RejectsResolution ==
    (Generated /\ (XyRes[1] <= 0 \/ XyRes[2] <= 0))
        => raised # NoException

\* C8: exactly one time representation must be selected: both selected is a
\* configuration error, and a dataset is returned only when exactly one of
\* use_cftime and time_dtype is selected.
C8_OneTimeRepresentation ==
    /\ (Generated /\ params.use_cftime /\ params.time_dtype # None)
        => raised = "ValueError"
    /\ Returned => (params.use_cftime <=> params.time_dtype = None)

\* C9: in a dataset new_dataset returns there are periods centers and
\* periods bounds pairs over the periods+1 boundary instants b, with
\* bounds[i] = (b[i], b[i+1]) and center[i] = b[i] + (b[i+1] - b[i]) div 2.
C9_TimeAxis ==
    Returned =>
        LET b == date_range(params.time_res, params.time_periods + 1,
                            ticks_per_second(params.use_cftime, params.time_dtype))
            name == params.time_name
        IN  /\ Len(dataset.var[name].data) = params.time_periods
            /\ \A i \in 1..params.time_periods :
                 dataset.var[name].data[i] = b[i] + ((b[i + 1] - b[i]) \div 2)
            /\ ~params.drop_bounds =>
                 /\ Len(dataset.var[name \o "_bnds"].data) = 2 * params.time_periods
                 /\ \A i \in 1..params.time_periods :
                      /\ Bnd(name \o "_bnds", i, 0) = b[i]
                      /\ Bnd(name \o "_bnds", i, 1) = b[i + 1]

\* C10: when lon and lat are both 2-D, check_xy_coords reports a dimension
\* ERROR about lon iff the dimensions of lon are not ('y', 'x'), and one
\* about lat iff the dimensions of lat are not ('y', 'x').
C10_Geographic2D ==
    (op = "check_xy_coords" /\ Has(dataset, "lon") /\ Has(dataset, "lat")
        /\ Len(dataset.var["lon"].dims) = 2 /\ Len(dataset.var["lat"].dims) = 2
        /\ raised = NoException)
    => /\ HasIssue(ERROR, "dimensions must be", "lon")
            <=> dataset.var["lon"].dims # <<"y", "x">>
       /\ HasIssue(ERROR, "dimensions must be", "lat")
            <=> dataset.var["lat"].dims # <<"y", "x">>

\* what verify_dataset keeps of the issues of one rule at the level of the call
AtLevel(iss) ==
    IF level = ERROR THEN SelectSeq(iss, LAMBDA issue : issue[1] = ERROR)
    ELSE iss

\* C11: the list verify_dataset returns is the concatenation of the issues
\* of check_global_attrs, then check_time_coord, then check_xy_coords, each
\* in its emission order, duplicates kept, nothing added.
C11_Concatenation ==
    (op = "verify_dataset" /\ raised = NoException) =>
        issues = AtLevel(check_global_attrs(dataset).issues)
                 \o AtLevel(check_time_coord(dataset).issues)
                 \o AtLevel(check_xy_coords(dataset).issues)

\* all three rules emitted issues, and one issue occurs twice in the result
C11_Witness ==
    /\ op = "verify_dataset" /\ raised = NoException /\ level = WARNING
    /\ check_global_attrs(dataset).issues # <<>>
    /\ check_time_coord(dataset).issues # <<>>
    /\ check_xy_coords(dataset).issues # <<>>
    /\ \E i, j \in 1..Len(issues) : i < j /\ issues[i] = issues[j]

\* C12: the result of verify_dataset at level ERROR is the order-preserving
\* subsequence of the ERROR issues of its result at level WARNING (it raises
\* at one level iff it raises at the other); at level WARNING every issue
\* of every rule is reported.
C12_LevelFilter ==
    /\ (op = "verify_dataset" /\ level = ERROR) =>
          LET w == verify_dataset(dataset, WARNING)
          IN  /\ raised = w.raised
              /\ raised = NoException =>
                    issues = SelectSeq(w.issues, LAMBDA issue : issue[1] = ERROR)
    /\ (op = "verify_dataset" /\ level = WARNING /\ raised = NoException) =>
          Len(issues) = Len(check_global_attrs(dataset).issues)
                        + Len(check_time_coord(dataset).issues)
                        + Len(check_xy_coords(dataset).issues)

\* a dataset with WARNING findings only: the result at level ERROR is empty
C12_Witness ==
    /\ op = "verify_dataset" /\ level = ERROR /\ raised = NoException
    /\ issues = <<>>
    /\ verify_dataset(dataset, WARNING).issues # <<>>

\* a quantity variable as the claim defines it
IsQuantity(name) ==
    /\ Len(dataset.var[name].dims) > 0
    /\ "flag_names" \notin DOMAIN dataset.var[name].attrs
    /\ name # "crs"

HasAttrWarning(name, attr) ==
    \E i \in 1..Len(issues) :
        issues[i] = <<WARNING, Msg("missing attribute in variable", name, attr, <<>>, <<>>)>>

\* C13: in the result of verify_dataset at level WARNING, a variable of the
\* dataset (coordinate or data variable) has a 'missing standard_name' or
\* 'missing units' WARNING iff it is a quantity variable (at least one
\* dimension, no flag_names, not 'crs') and lacks that attribute.
C13_QuantityChecks ==
    (op = "verify_dataset" /\ level = WARNING /\ raised = NoException) =>
        \A name \in DOMAIN dataset.var, attr \in {"standard_name", "units"} :
            HasAttrWarning(name, attr)
                <=> (IsQuantity(name) /\ attr \notin DOMAIN dataset.var[name].attrs)

\* C14: check_time_coord of a dataset whose 'time' variable lacks the
\* attribute long_name emits the WARNING 'missing attribute long_name in
\* variable time'.
C14_TimeLongName ==
    (op = "check_time_coord" /\ raised = NoException /\ Has(dataset, "time")
        /\ "long_name" \notin DOMAIN dataset.var["time"].attrs)
    => HasAttrWarning("time", "long_name")

HasTimeFirstError(name) ==
    \E i \in 1..Len(issues) :
        issues[i] = <<ERROR, Msg("first dimension of variable must be, but dimensions are",
                                 name, "", <<"time">>, dataset.var[name].dims)>>

\* C15: check_time_coord of a dataset that has a 'time' variable reports,
\* for every other variable, an ERROR naming the variable and its dimension
\* tuple iff its dimensions include 'time' and its first dimension is not
\* 'time'.
C15_TimeFirst ==
    (op = "check_time_coord" /\ Has(dataset, "time")) =>
        \A name \in (DOMAIN dataset.var) \ {"time"} :
            HasTimeFirstError(name)
                <=> LET dims == dataset.var[name].dims
                    IN  InSeq("time", dims) /\ dims[1] # "time"

\* both coordinates of a pair are in the dataset and 1-D
Pair1D(a, b) ==
    /\ Has(dataset, a) /\ Has(dataset, b)
    /\ Len(dataset.var[a].dims) = 1 /\ Len(dataset.var[b].dims) = 1

\* the variable has both dimensions of the pair, but not as its last two
Misordered(name, yx) ==
    LET dims == dataset.var[name].dims
    IN  /\ InSeq(yx[1], dims) /\ InSeq(yx[2], dims)
        /\ (Len(dims) < 2 \/ <<dims[Len(dims) - 1], dims[Len(dims)]>> # yx)

HasTrailingError(name) ==
    HasIssue(ERROR, "last two dimensions of variable must be, but dimensions are", name)

\* C16: in the result of check_xy_coords, with only the 1-D pair x/y (only
\* the 1-D pair lon/lat) a variable gets the trailing-dimensions ERROR iff
\* it has both dimensions and its last two are not (y, x) (not (lat, lon));
\* with both 1-D pairs in the dataset, no variable whose spatial dimensions
\* of either convention are misordered goes unreported.
C16_TrailingSpatial ==
    (op = "check_xy_coords" /\ raised = NoException) =>
        \A name \in DOMAIN dataset.var :
            /\ (Pair1D("x", "y") /\ ~Has(dataset, "lon") /\ ~Has(dataset, "lat"))
                 => (HasTrailingError(name) <=> Misordered(name, <<"y", "x">>))
            /\ (Pair1D("lon", "lat") /\ ~Has(dataset, "x") /\ ~Has(dataset, "y"))
                 => (HasTrailingError(name) <=> Misordered(name, <<"lat", "lon">>))
            /\ (Pair1D("x", "y") /\ Pair1D("lon", "lat"))
                 => ((Misordered(name, <<"y", "x">>) \/ Misordered(name, <<"lat", "lon">>))
                        => HasTrailingError(name))

\* the number of monotonicity ERRORs about a coordinate
MonoErrors(name) ==
    Cardinality({i \in 1..Len(issues) :
        /\ issues[i][1] = ERROR /\ issues[i][2].var = name
        /\ issues[i][2].text \in
             {"values of variable must be strictly monotonically increasing",
              "values of variable must be strictly monotonically increasing or decreasing"}})

\* the coordinate is in the dataset, 1-D on its own dimension
OwnDim(name) == Has(dataset, name) /\ dataset.var[name].dims = <<name>>

SomeNotIncreasing(v) == \E i \in 1..(Len(v) - 1) : v[i + 1] <= v[i]

SomeNotDecreasing(v) == \E i \in 1..(Len(v) - 1) : v[i + 1] >= v[i]

\* exactly one ERROR iff some neighbour is not larger, none otherwise
IncPolicy(name) ==
    /\ MonoErrors(name) = (IF SomeNotIncreasing(dataset.var[name].data) THEN 1 ELSE 0)
    /\ MonoErrors(name) = 1 =>
          HasIssue(ERROR, "values of variable must be strictly monotonically increasing", name)
    /\ Len(dataset.var[name].data) <= 1 => MonoErrors(name) = 0

\* exactly one ERROR iff neither strictly increasing nor strictly decreasing
IncOrDecPolicy(name) ==
    /\ MonoErrors(name) = (IF SomeNotIncreasing(dataset.var[name].data)
                               /\ SomeNotDecreasing(dataset.var[name].data)
                           THEN 1 ELSE 0)
    /\ MonoErrors(name) = 1 =>
          HasIssue(ERROR, "values of variable must be strictly monotonically increasing or decreasing", name)
    /\ Len(dataset.var[name].data) <= 1 => MonoErrors(name) = 0

\* C17 as stated: the rule that checks a 1-D coordinate on its own
\* dimension emits exactly one monotonicity ERROR for 'time', 'x' or 'lon'
\* iff some v[i+1] <= v[i], and for 'y' or 'lat' iff the values are neither
\* strictly increasing nor strictly decreasing; never for length 0 or 1.
C17_AsStated ==
    /\ (op = "check_time_coord" /\ OwnDim("time")) =>
          raised = NoException /\ IncPolicy("time")
    /\ (op = "check_xy_coords" /\ raised = NoException) =>
          /\ OwnDim("x") => IncPolicy("x")
          /\ OwnDim("lon") => IncPolicy("lon")
          /\ OwnDim("y") => IncOrDecPolicy("y")
          /\ OwnDim("lat") => IncOrDecPolicy("lat")

\* C17, amended: as stated for 'time'; for x and y (lon and lat) when both
\* coordinates of the pair are 1-D on their own dimensions; a coordinate
\* whose partner is missing or not 1-D gets no monotonicity ERROR at all.
C17_Monotonicity ==
    /\ (op = "check_time_coord" /\ OwnDim("time")) =>
          raised = NoException /\ IncPolicy("time")
    /\ (op = "check_xy_coords" /\ raised = NoException) =>
          /\ (OwnDim("x") /\ OwnDim("y")) => IncPolicy("x") /\ IncOrDecPolicy("y")
          /\ (OwnDim("lon") /\ OwnDim("lat")) =>
                IncPolicy("lon") /\ IncOrDecPolicy("lat")
          /\ ~Pair1D("x", "y") => MonoErrors("x") = 0 /\ MonoErrors("y") = 0
          /\ ~Pair1D("lon", "lat") => MonoErrors("lon") = 0 /\ MonoErrors("lat") = 0

\* x with equal neighbours beside a 1-D y: one ERROR about x, none about y
C17_Witness ==
    /\ op = "check_xy_coords" /\ raised = NoException
    /\ OwnDim("x") /\ OwnDim("y")
    /\ \E i \in 1..(Len(dataset.var["x"].data) - 1) :
          dataset.var["x"].data[i + 1] = dataset.var["x"].data[i]
    /\ MonoErrors("x") = 1 /\ MonoErrors("y") = 0

\* C18: the global attributes of the dataset new_dataset returns are those
\* of the same call with no data variables, and no attribute of a declared
\* data variable appears among them unless that call has it too.
C18_AttrsFrame ==
    Returned =>
        LET bare == new_dataset([params EXCEPT !.variables = <<>>])
        IN  /\ dataset.attrs = bare.attrs
            /\ \A i \in 1..Len(params.variables) :
                 \A k \in DOMAIN params.variables[i][3] :
                     k \in DOMAIN dataset.attrs => k \in DOMAIN bare.attrs

====
